---- MODULE Spec2Model ----
(***************************************************************************)
(* The dashboard's client-side state: the theme preference store           *)
(* (components/theme-provider.tsx) and the navigation sidebar (AppSidebar).*)
(*                                                                         *)
(* JavaScript values are modelled as follows.  A string is a TLA+ string;  *)
(* the value null returned by localStorage.getItem for a missing key is    *)
(* the reserved string Null, which no stored value equals.  A nullable     *)
(* number (a React ref) is the empty sequence for null and <<x>> for x.    *)
(* React state setters are taken to re-render at once; the passive effects *)
(* of the theme store run in a later step (RunEffects), those of the       *)
(* sidebar with the event that caused them.  Every localStorage call may   *)
(* throw (storage unavailable, quota exceeded): the operations take the    *)
(* outcome of each call as an input.                                       *)
(***************************************************************************)
EXTENDS Integers, Sequences, FiniteSets, TLC

VARIABLES
    \* ---- theme store (ThemeProvider) ----
    storage,          \* localStorage: key -> stored string, or Null when absent
    defaultTheme,     \* constructor prop
    defaultRadius,    \* constructor prop
    theme,            \* useState<Theme>
    radius,           \* useState<Radius>
    resolvedTheme,    \* useState<'light' | 'dark'>
    systemDark,       \* matchMedia('(prefers-color-scheme: dark)').matches
    listeners,        \* the registered handleChange listeners: the theme each one captured
    themeMounted,     \* the ThemeProvider is mounted
    panel,            \* what the most recent handler of the settings panel did
    effectsPending,   \* a render whose effect dependencies changed has not run its effects
    rootClass,        \* theme classes of document.documentElement.classList
    console,          \* messages the most recent operation logged
    thrown,           \* an exception left the most recent operation of the store
    lastCall,         \* the most recent operation of the theme store and its argument
    \* ---- sidebar (AppSidebar) ----
    admin,            \* useAdmin().admin: <<>> when not loaded, else <<record>>
    openMobile,       \* useSidebar().openMobile
    touchStartX,      \* useRef<number | null>
    touchEndX,        \* useRef<number | null>
    lastTouch,        \* the most recent sidebar event and what its handler saw
    sidebarMounted,   \* the AppSidebar is mounted
    instance,         \* which mount of the AppSidebar this is (1 for the first)
    fetches,          \* per mount, the state of the getSystemStats call its mount effect made
    version,          \* useState<string>('') of the current (or last) mount
    lastFetch         \* the most recent step of the version fetch

themeVars == <<storage, defaultTheme, defaultRadius, theme, radius, resolvedTheme,
               systemDark, listeners, themeMounted, panel, effectsPending, rootClass,
               console, thrown, lastCall>>
sidebarVars == <<admin, openMobile, touchStartX, touchEndX, lastTouch>>
versionVars == <<sidebarMounted, instance, fetches, version, lastFetch>>
vars == <<themeVars, sidebarVars, versionVars>>

----------------------------------------------------------------------------
(* Values                                                                  *)

Null == "<null>"

Theme == {"dark", "light", "system"}
ColorTheme == {"default", "red", "rose", "orange", "green", "blue", "yellow", "violet"}
Radius == {"0", "0.3rem", "0.5rem", "0.75rem"}

storageKey == "theme"
colorStorageKey == "color-theme"
radiusStorageKey == "radius"
StorageKeys == {storageKey, colorStorageKey, radiusStorageKey}

\* the lists the code tests membership in
ThemeList == <<"light", "dark", "system">>
RadiusList == <<"0", "0.3rem", "0.5rem", "0.75rem">>

\* Array.prototype.includes
Includes(list, v) == \E i \in 1..Len(list) : list[i] = v

\* truthiness of a string-or-null: null and the empty string are falsy
TruthyString(s) == s # Null /\ s # ""

\* Strings that are no member of the enumerations: what storage may hold from
\* another writer, and what a caller may pass to setRadius.
InvalidStrings == {"", "1rem"}

Undefined == "<undefined>"

\* The values the storage may hold under each key when the store is constructed.
StoredValues(key) ==
    IF key = storageKey THEN Theme \cup InvalidStrings \cup {Null}
    ELSE IF key = radiusStorageKey THEN Radius \cup InvalidStrings \cup {Null}
    ELSE {"blue", Null}

\* the values a caller passes to setRadius (the type says Radius; the code checks)
RadiusArgs == Radius \cup InvalidStrings

\* the defaultTheme and defaultRadius props a ThemeProvider is constructed with:
\* the defaults of the parameter list, and one other choice
DefaultProps == {<<"system", "0.5rem">>, <<"dark", "0">>}

\* the theme classes the document root carries before the store first applies one
InitialRootClasses == {{}}

\* the palettes a consumer is taken to pass to setColorTheme
ColorThemeArgs == {"default", "blue"}

Warn(text, arg) == [level |-> "warn", text |-> text, arg |-> arg]

----------------------------------------------------------------------------
(* safeLocalStorage: `throws` says whether the localStorage call throws     *)
(* (storage unavailable, quota exceeded).                                  *)

getItem(store, key, throws) ==
    IF throws
    THEN [value |-> Null, log |-> <<Warn("Failed to get localStorage item", key)>>,
          threw |-> FALSE]
    ELSE [value |-> store[key], log |-> <<>>, threw |-> FALSE]

setItem(store, key, value, throws) ==
    IF throws
    THEN [store |-> store, ok |-> FALSE,
          log |-> <<Warn("Failed to set localStorage item", key)>>, threw |-> FALSE]
    ELSE [store |-> [store EXCEPT ![key] = value], ok |-> TRUE, log |-> <<>>,
          threw |-> FALSE]

\* removeItem that reports success and leaves the key in place
removeItemKeeps(store, key, throws) ==
    IF throws
    THEN [store |-> store, ok |-> FALSE,
          log |-> <<Warn("Failed to remove localStorage item", key)>>, threw |-> FALSE]
    ELSE [store |-> store, ok |-> TRUE, log |-> <<>>, threw |-> FALSE]

\* removeItem without the try/catch
removeItemUncaught(store, key, throws) ==
    IF throws
    THEN [store |-> store, ok |-> FALSE, log |-> <<>>, threw |-> TRUE]
    ELSE [store |-> [store EXCEPT ![key] = Null], ok |-> TRUE, log |-> <<>>,
          threw |-> FALSE]

removeItem(store, key, throws) ==
    IF throws
    THEN [store |-> store, ok |-> FALSE,
          log |-> <<Warn("Failed to remove localStorage item", key)>>, threw |-> FALSE]
    ELSE [store |-> [store EXCEPT ![key] = Null], ok |-> TRUE, log |-> <<>>,
          threw |-> FALSE]

----------------------------------------------------------------------------
(* ThemeProvider                                                           *)

getSystemTheme(dark) == IF dark THEN "dark" ELSE "light"

\* the expression of lines 95 and 125
resolve(t, dark) ==
    IF t = "system" THEN getSystemTheme(dark) ELSE IF t = "dark" THEN "dark" ELSE "light"

\* a theme initializer that does not look at the saved value
initialThemeIgnoresStorage(saved, default) == default

\* the useState initializers of theme and radius
initialTheme(saved, default) ==
    IF TruthyString(saved) /\ Includes(ThemeList, saved) THEN saved ELSE default

\* the radius initializer without the membership test
initialRadiusUnchecked(saved, default) ==
    IF TruthyString(saved) THEN saved ELSE default

initialRadius(saved, default) ==
    IF TruthyString(saved) /\ Includes(RadiusList, saved) THEN saved ELSE default

\* applyTheme without the classList.remove
applyThemeNoRemove(classes, themeMode) == classes \cup {themeMode}

applyTheme(classes, themeMode) == (classes \ {"light", "dark"}) \cup {themeMode}

\* the context value handed to the consumers of useTheme()
value ==
    [theme |-> theme, radius |-> radius, resolvedTheme |-> resolvedTheme,
     setTheme |-> "setTheme", setRadius |-> "setRadius",
     resetToDefaults |-> "resetToDefaults", isSystemTheme |-> (theme = "system")]

\* reading a field of the context value: undefined when the value has no such field
ContextField(name) == IF name \in DOMAIN value THEN value[name] ELSE Undefined

\* the settings panel: the notifications its most recent handler raised, its
\* isResetting state, and whether an error escaped the handler
Panel(toasts, threw) == [toasts |-> toasts, isResetting |-> FALSE, threw |-> threw]
IdlePanel == Panel(<<>>, FALSE)

ThemeInit ==
    /\ storage \in {f \in [StorageKeys -> Theme \cup Radius \cup InvalidStrings \cup {"blue", Null}] :
                      \A k \in StorageKeys : f[k] \in StoredValues(k)}
    /\ \E props \in DefaultProps : defaultTheme = props[1] /\ defaultRadius = props[2]
    /\ systemDark \in BOOLEAN
    /\ \E themeThrows \in BOOLEAN, radiusThrows \in BOOLEAN :
         LET st == getItem(storage, storageKey, themeThrows)
             sr == getItem(storage, radiusStorageKey, radiusThrows)
         IN  /\ theme = initialTheme(st.value, defaultTheme)
             /\ radius = initialRadius(sr.value, defaultRadius)
             /\ console = st.log \o sr.log
             /\ thrown = (st.threw \/ sr.threw)
    /\ resolvedTheme = resolve(theme, systemDark)
    /\ listeners = <<>>
    /\ themeMounted = TRUE
    /\ panel = IdlePanel
    /\ effectsPending = TRUE
    /\ rootClass \in InitialRootClasses
    /\ lastCall = [op |-> "init", arg |-> Null]

\* a state setter followed by the render it causes: the effects are scheduled
\* when one of their dependencies (theme, radius) changed
Render(newTheme, newRadius) ==
    /\ theme' = newTheme
    /\ radius' = newRadius
    /\ effectsPending' = (effectsPending \/ newTheme # theme \/ newRadius # radius)

\* setTheme without the fallback branch: the state is set only when the write succeeded
setThemeOnlyWhenSaved(newTheme, throws) ==
    LET w == setItem(storage, storageKey, newTheme, throws) IN
    IF w.ok
    THEN /\ storage' = w.store
         /\ Render(newTheme, radius)
         /\ console' = w.log
         /\ thrown' = FALSE
    ELSE /\ console' = w.log \o <<Warn("Failed to save theme to localStorage, changes may not persist", Null)>>
         /\ thrown' = FALSE
         /\ UNCHANGED <<storage, theme, radius, effectsPending>>

setTheme(newTheme, throws) ==
    LET w == setItem(storage, storageKey, newTheme, throws) IN
    IF w.threw
    THEN /\ thrown' = TRUE
         /\ console' = w.log
         /\ UNCHANGED <<storage, theme, radius, effectsPending>>
    ELSE /\ storage' = w.store
         /\ Render(newTheme, radius)
         /\ console' = IF w.ok THEN w.log
                        ELSE w.log \o <<Warn("Failed to save theme to localStorage, changes may not persist", Null)>>
         /\ thrown' = FALSE

\* setRadius without the membership test
setRadiusUnchecked(newRadius, throws) ==
    LET w == setItem(storage, radiusStorageKey, newRadius, throws) IN
    /\ storage' = w.store
    /\ Render(theme, newRadius)
    /\ console' = IF w.ok THEN w.log
                   ELSE w.log \o <<Warn("Failed to save radius to localStorage, changes may not persist", Null)>>
    /\ thrown' = FALSE

setRadius(newRadius, throws) ==
    IF Includes(RadiusList, newRadius)
    THEN LET w == setItem(storage, radiusStorageKey, newRadius, throws) IN
         IF w.threw
         THEN /\ thrown' = TRUE
              /\ console' = w.log
              /\ UNCHANGED <<storage, theme, radius, effectsPending>>
         ELSE /\ storage' = w.store
              /\ Render(theme, newRadius)
              /\ console' = IF w.ok THEN w.log
                             ELSE w.log \o <<Warn("Failed to save radius to localStorage, changes may not persist", Null)>>
              /\ thrown' = FALSE
    ELSE /\ console' = <<Warn("Invalid radius value", newRadius)>>
         /\ thrown' = FALSE
         /\ UNCHANGED <<storage, theme, radius, effectsPending>>

resetToDefaults(throws1, throws2, throws3) ==
    LET r1 == removeItem(storage, storageKey, throws1)
        r2 == removeItem(r1.store, colorStorageKey, throws2)
        r3 == removeItem(r2.store, radiusStorageKey, throws3)
    IN  IF r1.threw \/ r2.threw \/ r3.threw
        THEN /\ thrown' = TRUE
             /\ storage' = IF r1.threw THEN storage ELSE IF r2.threw THEN r1.store ELSE r2.store
             /\ console' = IF r1.threw THEN r1.log ELSE IF r2.threw THEN r1.log \o r2.log
                            ELSE r1.log \o r2.log \o r3.log
             /\ UNCHANGED <<theme, radius, effectsPending>>
        ELSE /\ storage' = r3.store
             /\ Render(defaultTheme, defaultRadius)
             /\ console' = r1.log \o r2.log \o r3.log
             /\ thrown' = FALSE

\* handleChange without the test of the theme mode
handleChangeAnyTheme(captured, matches) ==
    LET systemTheme == IF matches THEN "dark" ELSE "light" IN
    /\ resolvedTheme' = systemTheme
    /\ rootClass' = applyTheme(rootClass, systemTheme)

\* handleChange as registered by the effect that captured `captured`
handleChange(captured, matches) ==
    IF captured = "system"
    THEN LET systemTheme == IF matches THEN "dark" ELSE "light" IN
         /\ resolvedTheme' = systemTheme
         /\ rootClass' = applyTheme(rootClass, systemTheme)
    ELSE UNCHANGED <<resolvedTheme, rootClass>>

\* ---- the operations of the theme store as steps ----

\* a step of the mounted store that no panel handler made
StoreStep ==
    /\ themeMounted
    /\ panel' = IdlePanel
    /\ UNCHANGED <<themeMounted, sidebarVars, versionVars>>

\* setTheme has no run-time test of its argument: callers pass a value of the
\* parameter type Theme
SetTheme ==
    \E newTheme \in Theme, throws \in BOOLEAN :
        /\ setTheme(newTheme, throws)
        /\ lastCall' = [op |-> "setTheme", arg |-> newTheme]
        /\ UNCHANGED <<defaultTheme, defaultRadius, resolvedTheme, systemDark, listeners, rootClass>>
        /\ StoreStep

SetRadius ==
    \E newRadius \in RadiusArgs, throws \in BOOLEAN :
        /\ setRadius(newRadius, throws)
        /\ lastCall' = [op |-> "setRadius", arg |-> newRadius]
        /\ UNCHANGED <<defaultTheme, defaultRadius, resolvedTheme, systemDark, listeners, rootClass>>
        /\ StoreStep

ResetToDefaults ==
    \E t1 \in BOOLEAN, t2 \in BOOLEAN, t3 \in BOOLEAN :
        /\ resetToDefaults(t1, t2, t3)
        /\ lastCall' = [op |-> "resetToDefaults", arg |-> Null]
        /\ UNCHANGED <<defaultTheme, defaultRadius, resolvedTheme, systemDark, listeners, rootClass>>
        /\ StoreStep

\* a consumer calls useTheme().setColorTheme(name): the context value has no
\* such member, so the call is a call of undefined and throws a TypeError
SetColorTheme ==
    \E name \in ColorThemeArgs :
        /\ ContextField("setColorTheme") = Undefined
        /\ thrown' = TRUE
        /\ console' = <<>>
        /\ lastCall' = [op |-> "setColorTheme", arg |-> name]
        /\ UNCHANGED <<storage, theme, radius, effectsPending, defaultTheme, defaultRadius,
                       resolvedTheme, systemDark, listeners, rootClass>>
        /\ StoreStep

\* the cleanup the listener effect returns: removeEventListener of the
\* handleChange that the effect registered
\* an effect that returns no cleanup
cleanupMissing(ls) == ls

cleanup(ls) == IF ls = <<>> THEN <<>> ELSE SubSeq(ls, 1, Len(ls) - 1)

\* the two effects of a commit: the listener effect (clean up, register a
\* handleChange that closes over the rendered theme), then the apply effect
RunEffects ==
    /\ effectsPending
    /\ listeners' = Append(cleanup(listeners), theme)
    /\ resolvedTheme' = resolve(theme, systemDark)
    /\ rootClass' = applyTheme(rootClass, resolve(theme, systemDark))
    /\ effectsPending' = FALSE
    /\ console' = <<>>
    /\ thrown' = FALSE
    /\ lastCall' = [op |-> "effects", arg |-> IF listeners = <<>> THEN "attach" ELSE "reattach"]
    /\ UNCHANGED <<storage, defaultTheme, defaultRadius, theme, radius, systemDark>>
    /\ StoreStep

\* the OS color scheme changes; the media query notifies the registered
\* listeners.  They all compute the same systemTheme, so running them is running
\* one that captured 'system' if there is one
SystemThemeChange ==
    /\ systemDark' = ~systemDark
    /\ IF listeners = <<>>
       THEN UNCHANGED <<resolvedTheme, rootClass>>
       ELSE handleChange(IF \E i \in 1..Len(listeners) : listeners[i] = "system"
                         THEN "system" ELSE listeners[1], systemDark')
    /\ console' = <<>>
    /\ thrown' = FALSE
    /\ lastCall' = [op |-> "systemThemeChange", arg |-> getSystemTheme(systemDark')]
    /\ UNCHANGED <<storage, defaultTheme, defaultRadius, theme, radius, listeners, effectsPending,
                   themeMounted, sidebarVars, versionVars>>
    /\ panel' = IdlePanel

\* ---- the handlers of the settings panel (ThemeSettings) ----

Toast(kind, text) == [kind |-> kind, text |-> text]

\* the part of a panel handler after the store call: the toast is raised
\* unless the call threw
AfterStoreCall(text) ==
    panel' = IF thrown' THEN Panel(<<>>, TRUE) ELSE Panel(<<Toast("success", text)>>, FALSE)

PanelFrame ==
    /\ themeMounted
    /\ UNCHANGED <<defaultTheme, defaultRadius, resolvedTheme, systemDark, listeners, rootClass,
                   themeMounted, sidebarVars, versionVars>>

HandleThemeChange ==
    \E newTheme \in Theme, throws \in BOOLEAN :
        /\ setTheme(newTheme, throws)
        /\ AfterStoreCall("theme.themeChanged")
        /\ lastCall' = [op |-> "handleThemeChange", arg |-> newTheme]
        /\ PanelFrame

\* setColorTheme is read from the context value, which has no such member: the
\* call throws a TypeError before the toast
HandleColorChange ==
    \E colorName \in ColorThemeArgs :
        /\ ContextField("setColorTheme") = Undefined
        /\ thrown' = TRUE
        /\ console' = <<>>
        /\ panel' = Panel(<<>>, TRUE)
        /\ lastCall' = [op |-> "handleColorChange", arg |-> colorName]
        /\ UNCHANGED <<storage, theme, radius, effectsPending>>
        /\ PanelFrame

HandleRadiusChange ==
    \E radiusValue \in RadiusArgs, throws \in BOOLEAN :
        /\ IF Includes(RadiusList, radiusValue)
           THEN /\ setRadius(radiusValue, throws)
                /\ AfterStoreCall("theme.radiusSaved")
           ELSE /\ console' = <<>>
                /\ thrown' = FALSE
                /\ panel' = Panel(<<>>, FALSE)
                /\ UNCHANGED <<storage, theme, radius, effectsPending>>
        /\ lastCall' = [op |-> "handleRadiusChange", arg |-> radiusValue]
        /\ PanelFrame

\* setIsResetting(true); try resetToDefaults and the success toast; catch: the
\* error toast; finally setIsResetting(false)
HandleResetToDefaults ==
    \E t1 \in BOOLEAN, t2 \in BOOLEAN, t3 \in BOOLEAN :
        /\ resetToDefaults(t1, t2, t3)
        /\ panel' = IF thrown'
                    THEN Panel(<<Toast("error", "theme.resetFailed")>>, FALSE)
                    ELSE Panel(<<Toast("success", "theme.resetSuccess")>>, FALSE)
        /\ lastCall' = [op |-> "handleResetToDefaults", arg |-> Null]
        /\ PanelFrame

PanelNext ==
    \/ HandleThemeChange
    \/ HandleColorChange
    \/ HandleRadiusChange
    \/ HandleResetToDefaults
    \/ RunEffects
    \/ SystemThemeChange

\* ---- the life cycle of the ThemeProvider ----

\* the provider unmounts: the cleanup of the listener effect runs.  React runs
\* the effects that are still pending before it commits the unmount
ThemeUnmount ==
    /\ themeMounted
    /\ ~effectsPending
    /\ themeMounted' = FALSE
    /\ listeners' = cleanup(listeners)
    /\ console' = <<>>
    /\ thrown' = FALSE
    /\ panel' = IdlePanel
    /\ lastCall' = [op |-> "unmount", arg |-> Null]
    /\ UNCHANGED <<storage, defaultTheme, defaultRadius, theme, radius, resolvedTheme,
                   systemDark, effectsPending, rootClass, sidebarVars, versionVars>>

\* a new provider is constructed with the same props over the same storage
ThemeMount ==
    /\ ~themeMounted
    /\ themeMounted' = TRUE
    /\ \E themeThrows \in BOOLEAN, radiusThrows \in BOOLEAN :
         LET st == getItem(storage, storageKey, themeThrows)
             sr == getItem(storage, radiusStorageKey, radiusThrows)
         IN  /\ theme' = initialTheme(st.value, defaultTheme)
             /\ radius' = initialRadius(sr.value, defaultRadius)
             /\ console' = st.log \o sr.log
             /\ thrown' = (st.threw \/ sr.threw)
    /\ resolvedTheme' = resolve(theme', systemDark)
    /\ effectsPending' = TRUE
    /\ panel' = IdlePanel
    /\ lastCall' = [op |-> "init", arg |-> Null]
    /\ UNCHANGED <<storage, defaultTheme, defaultRadius, systemDark, listeners, rootClass,
                   sidebarVars, versionVars>>

LifecycleNext ==
    \/ SetTheme
    \/ SetRadius
    \/ ResetToDefaults
    \/ RunEffects
    \/ SystemThemeChange
    \/ ThemeUnmount
    \/ ThemeMount

ThemeNext ==
    \/ SetTheme
    \/ SetRadius
    \/ ResetToDefaults
    \/ SetColorTheme
    \/ RunEffects
    \/ SystemThemeChange

----------------------------------------------------------------------------
(* AppSidebar                                                              *)

minSwipeDistance == 50
edgeThreshold == 50

\* window.innerWidth, and the largest clientX a touch reports (a touch may
\* report a position beyond the viewport)
InnerWidth == 120
MaxX == 131

\* the clientX values of the touches: the pixels next to each multiple of ten,
\* which hold 0, both sides of the edge threshold (InnerWidth - edgeThreshold
\* and the pixel after it) and travels of exactly, one more and one less than
\* minSwipeDistance
TouchXs == {x \in 0..MaxX : x % 10 \in {0, 1}}

\* !ref.current for a number-or-null: null and 0 are falsy
FalsyRef(ref) == ref = <<>> \/ ref[1] = 0

isLeftSwipe(distance) == distance > minSwipeDistance
\* isRightSwipe with the comparison of isLeftSwipe
isRightSwipeCopied(distance) == distance > minSwipeDistance
isRightSwipe(distance) == distance < -minSwipeDistance
\* an edge zone twice as wide
isFromWideEdge(startX) == startX > InnerWidth - 2 * edgeThreshold
\* the edge test against the wrong side of the screen
isFromLeftMargin(startX) == startX > edgeThreshold
isFromRightEdge(startX) == startX > InnerWidth - edgeThreshold

\* the admin object of useAdmin(): not loaded, or a record whose is_sudo may be absent
Admins ==
    {<<>>, <<[username |-> "admin"]>>,
     <<[username |-> "admin", is_sudo |-> FALSE]>>,
     <<[username |-> "admin", is_sudo |-> TRUE]>>}

\* the truthiness of admin?.is_sudo
IsSudo(a) == a # <<>> /\ "is_sudo" \in DOMAIN a[1] /\ a[1].is_sudo

Item(title, url) == [title |-> title, url |-> url]

\* navMain without the privilege test
navMainForAll(a) ==
    <<Item("dashboard", "/"), Item("users", "/users"),
      Item("statistics", "/statistics"), Item("hosts", "/hosts"),
      Item("groups", "/groups"), Item("admins.title", "/admins"),
      Item("nodes.title", "/nodes"), Item("templates.title", "/templates"),
      Item("bulk.title", "/bulk"), Item("settings.title", "/settings")>>

\* data.navMain
navMain(a) ==
    <<Item("dashboard", "/"), Item("users", "/users")>>
    \o (IF IsSudo(a)
        THEN <<Item("statistics", "/statistics"), Item("hosts", "/hosts"),
               Item("groups", "/groups"), Item("admins.title", "/admins"),
               Item("nodes.title", "/nodes"), Item("templates.title", "/templates"),
               Item("bulk.title", "/bulk"), Item("settings.title", "/settings")>>
        ELSE <<>>)

\* data.community, and whether SidebarContent renders it
community == <<"documentation", "discussionGroup", "github">>
renderedCommunity(a) == IF IsSudo(a) THEN community ELSE <<>>

\* how many times the AppSidebar is mounted
MaxMounts == 3

\* what getSystemStats() settles with: a rejection, or a response body that
\* may be missing, may lack the version field, or may carry an empty version
Outcome(rejected, data) == [rejected |-> rejected, data |-> data]
NoOutcome == Outcome(FALSE, <<>>)
StatsOutcomes ==
    {Outcome(TRUE, <<>>), Outcome(FALSE, <<>>),
     Outcome(FALSE, <<[total_user |-> "3"]>>),
     Outcome(FALSE, <<[version |-> ""]>>),
     Outcome(FALSE, <<[version |-> "0.8.4"]>>),
     Outcome(FALSE, <<[version |-> "1.0.0"]>>)}

\* data?.version: undefined when there is no body or no such field
DataVersion(data) ==
    IF data # <<>> /\ "version" \in DOMAIN data[1] THEN data[1].version ELSE Undefined

TruthyVersion(v) == v # Undefined /\ v # ""

FetchEvent(op, inst, outcome, threw) ==
    [op |-> op, inst |-> inst, outcome |-> outcome, threw |-> threw]

NoTouch(op) == [op |-> op, start |-> <<>>, end |-> <<>>, wasOpen |-> FALSE]

SidebarInit ==
    /\ admin \in Admins
    /\ openMobile = FALSE
    /\ touchStartX = <<>>
    /\ touchEndX = <<>>
    /\ lastTouch = NoTouch("mount")
    /\ sidebarMounted = TRUE
    /\ instance = 1
    /\ fetches = [i \in 1..MaxMounts |-> IF i = 1 THEN "pending" ELSE "none"]
    /\ version = ""
    /\ lastFetch = FetchEvent("mount", 1, NoOutcome, FALSE)

handleTouchStart(clientX) ==
    /\ touchEndX' = <<>>
    /\ touchStartX' = <<clientX>>

handleTouchMove(clientX) ==
    /\ touchEndX' = <<clientX>>
    /\ UNCHANGED touchStartX

handleTouchEnd ==
    IF FalsyRef(touchStartX) \/ FalsyRef(touchEndX)
    THEN UNCHANGED <<openMobile, touchStartX, touchEndX>>
    ELSE LET distance == touchStartX[1] - touchEndX[1] IN
         /\ openMobile' =
                IF isFromRightEdge(touchStartX[1])
                THEN IF isLeftSwipe(distance) /\ ~openMobile THEN TRUE
                     ELSE IF isRightSwipe(distance) /\ openMobile THEN FALSE
                     ELSE openMobile
                ELSE openMobile
         /\ touchStartX' = <<>>
         /\ touchEndX' = <<>>

TouchStart ==
    \E x \in TouchXs :
        /\ handleTouchStart(x)
        /\ lastTouch' = NoTouch("touchstart")
        /\ UNCHANGED <<admin, openMobile>>
        /\ sidebarMounted
        /\ UNCHANGED <<themeVars, versionVars>>

TouchMove ==
    \E x \in TouchXs :
        /\ handleTouchMove(x)
        /\ lastTouch' = NoTouch("touchmove")
        /\ UNCHANGED <<admin, openMobile>>
        /\ sidebarMounted
        /\ UNCHANGED <<themeVars, versionVars>>

TouchEnd ==
    /\ handleTouchEnd
    /\ lastTouch' = [op |-> "touchend", start |-> touchStartX, end |-> touchEndX,
                     wasOpen |-> openMobile]
    /\ UNCHANGED admin
    /\ sidebarMounted
    /\ UNCHANGED <<themeVars, versionVars>>

\* the SidebarTrigger of the mobile header toggles the mobile menu
SidebarTrigger ==
    /\ openMobile' = ~openMobile
    /\ lastTouch' = NoTouch("trigger")
    /\ UNCHANGED <<admin, touchStartX, touchEndX>>
    /\ UNCHANGED <<themeVars, versionVars>>

\* useAdmin() delivers another admin object
AdminChange ==
    /\ admin' \in Admins \ {admin}
    /\ lastTouch' = NoTouch("admin")
    /\ UNCHANGED <<openMobile, touchStartX, touchEndX>>
    /\ UNCHANGED <<themeVars, versionVars>>

\* ---- the version fetch of the mount effect ----

\* fetchVersion without the try/catch
fetchVersionUncaught(outcome) ==
    IF outcome.rejected
    THEN [set |-> FALSE, label |-> "", log |-> <<>>, threw |-> TRUE]
    ELSE IF TruthyVersion(DataVersion(outcome.data))
         THEN [set |-> TRUE, label |-> " (v" \o DataVersion(outcome.data) \o ")",
               log |-> <<>>, threw |-> FALSE]
         ELSE [set |-> FALSE, label |-> "", log |-> <<>>, threw |-> FALSE]

\* fetchVersion from the point where getSystemStats() settles: whether it calls
\* setVersion and with what, what it logs, whether its promise rejects
fetchVersion(outcome) ==
    IF outcome.rejected
    THEN [set |-> FALSE, label |-> "", log |-> <<"Failed to fetch version:">>,
          threw |-> FALSE]
    ELSE IF TruthyVersion(DataVersion(outcome.data))
         THEN [set |-> TRUE, label |-> " (v" \o DataVersion(outcome.data) \o ")",
               log |-> <<>>, threw |-> FALSE]
         ELSE [set |-> FALSE, label |-> "", log |-> <<>>, threw |-> FALSE]

\* a version state that lives outside the component instance
setVersionDetached(inst, label) == version' = label

\* the setVersion of mount `inst`: React drops the update of a state setter
\* whose component instance is unmounted
setVersion(inst, label) ==
    IF sidebarMounted /\ instance = inst THEN version' = label ELSE UNCHANGED version

\* the getSystemStats() call of mount `inst` settles and fetchVersion resumes
FetchSettles ==
    \E inst \in 1..MaxMounts, outcome \in StatsOutcomes :
        /\ fetches[inst] = "pending"
        /\ LET r == fetchVersion(outcome) IN
             /\ IF r.set THEN setVersion(inst, r.label) ELSE UNCHANGED version
             /\ lastFetch' = FetchEvent("settled", inst, outcome, r.threw)
        /\ fetches' = [fetches EXCEPT ![inst] = "settled"]
        /\ UNCHANGED <<sidebarMounted, instance>>
        /\ UNCHANGED <<themeVars, sidebarVars>>

\* the AppSidebar unmounts: its touch listeners are removed, its fetch goes on
SidebarUnmount ==
    /\ sidebarMounted
    /\ sidebarMounted' = FALSE
    /\ lastFetch' = FetchEvent("unmount", instance, NoOutcome, FALSE)
    /\ UNCHANGED <<instance, fetches, version>>
    /\ UNCHANGED <<themeVars, sidebarVars>>

\* the AppSidebar mounts again: fresh state and refs, and the mount effect
\* calls getSystemStats() once
SidebarMount ==
    /\ ~sidebarMounted
    /\ instance < MaxMounts
    /\ sidebarMounted' = TRUE
    /\ instance' = instance + 1
    /\ version' = ""
    /\ fetches' = [fetches EXCEPT ![instance + 1] = "pending"]
    /\ lastFetch' = FetchEvent("mount", instance + 1, NoOutcome, FALSE)
    /\ touchStartX' = <<>>
    /\ touchEndX' = <<>>
    /\ lastTouch' = NoTouch("mount")
    /\ UNCHANGED <<admin, openMobile>>
    /\ UNCHANGED themeVars

VersionNext ==
    \/ FetchSettles
    \/ SidebarUnmount
    \/ SidebarMount

SidebarNext ==
    \/ TouchStart
    \/ TouchMove
    \/ TouchEnd
    \/ SidebarTrigger
    \/ AdminChange

----------------------------------------------------------------------------
(* Specifications                                                          *)

\* the theme store as constructed with the default props over an empty storage
ThemeFresh ==
    /\ storage = [k \in StorageKeys |-> Null]
    /\ defaultTheme = "system"
    /\ defaultRadius = "0.5rem"
    /\ systemDark = FALSE
    /\ rootClass = {}
    /\ console = <<>>
    /\ ThemeInit

\* the sidebar before the admin is loaded
SidebarFresh ==
    /\ admin = <<>>
    /\ SidebarInit

Init == ThemeInit /\ SidebarInit
Next == ThemeNext \/ PanelNext \/ LifecycleNext \/ SidebarNext \/ VersionNext
Spec == Init /\ [][Next]_vars

\* the two components share no state: each is checked on its own
ThemeSpecInit == ThemeInit /\ SidebarFresh
SidebarSpecInit == ThemeFresh /\ SidebarInit
ThemeSpec == ThemeSpecInit /\ [][ThemeNext]_vars
SidebarSpec == SidebarSpecInit /\ [][SidebarNext]_vars

\* the settings panel over a store constructed with the default props
PanelSpecInit == ThemeFresh /\ SidebarFresh
PanelSpec == PanelSpecInit /\ [][PanelNext]_vars

\* the store over its mounts, constructed with the default props
LifecycleSpecInit == ThemeFresh /\ SidebarFresh
LifecycleSpec == LifecycleSpecInit /\ [][LifecycleNext]_vars

\* the version fetch over the mounts of the sidebar
VersionSpecInit == ThemeFresh /\ SidebarFresh
VersionSpec == VersionSpecInit /\ [][VersionNext]_vars

----------------------------------------------------------------------------
(* Properties of the theme store (checked under ThemeSpec)                  *)

Logged(log, entry) == \E i \in 1..Len(log) : log[i] = entry

\* the most recent operation logged that the storage call on `key` failed
SetFailed(key) == Logged(console, Warn("Failed to set localStorage item", key))
RemoveFailed(key) == Logged(console, Warn("Failed to remove localStorage item", key))
GetFailed(key) == Logged(console, Warn("Failed to get localStorage item", key))

\* C1: a setRadius call with a value outside {'0', '0.3rem', '0.5rem', '0.75rem'}
\* leaves the in-memory theme and radius and the three storage keys as they
\* were, logs the invalid-radius warning and raises nothing.
C1_InvalidRadiusRejected ==
    [][(lastCall'.op = "setRadius" /\ lastCall'.arg \notin Radius)
        => /\ theme' = theme
           /\ radius' = radius
           /\ \A k \in StorageKeys : storage'[k] = storage[k]
           /\ Logged(console', Warn("Invalid radius value", lastCall'.arg))
           /\ ~thrown']_vars

\* an invalid radius was rejected in a state whose radius and stored radius
\* are not the defaults
C1_Witness ==
    /\ lastCall.op = "setRadius"
    /\ lastCall.arg = "1rem"
    /\ Logged(console, Warn("Invalid radius value", "1rem"))
    /\ radius # defaultRadius
    /\ storage[radiusStorageKey] = radius

\* C2 as stated: after resetToDefaults() the three storage keys are absent and
\* the in-memory theme and radius are the constructor defaults.
C2_ResetClearsEverything ==
    lastCall.op = "resetToDefaults"
        => /\ \A k \in StorageKeys : storage[k] = Null
           /\ theme = defaultTheme
           /\ radius = defaultRadius

\* C2 (amended): after resetToDefaults() the in-memory theme and radius are the
\* constructor defaults, nothing was raised, and every storage key is absent
\* unless its removeItem call failed (a failure that is logged): with working
\* storage the three keys are absent.
C2_ResetToDefaults ==
    lastCall.op = "resetToDefaults"
        => /\ theme = defaultTheme
           /\ radius = defaultRadius
           /\ ~thrown
           /\ \A k \in StorageKeys : storage[k] = Null \/ RemoveFailed(k)

\* a reset with working storage that changed the theme (its effects have not
\* run yet: the resolved theme is still that of the theme before the reset)
C2_Witness ==
    /\ lastCall.op = "resetToDefaults"
    /\ console = <<>>
    /\ \A k \in StorageKeys : storage[k] = Null
    /\ theme = defaultTheme
    /\ radius = defaultRadius
    /\ resolvedTheme # resolve(theme, systemDark)

\* C3: when no effect is pending, resolvedTheme is 'dark' for theme 'dark',
\* 'light' for theme 'light', and the OS color scheme for theme 'system'.
C3_ResolvedTheme ==
    ~effectsPending
        => /\ theme = "dark" => resolvedTheme = "dark"
           /\ theme = "light" => resolvedTheme = "light"
           /\ theme = "system" => resolvedTheme = (IF systemDark THEN "dark" ELSE "light")

\* the OS turned dark while the mode was 'system' and no effect was pending
C3_Witness ==
    /\ ~effectsPending
    /\ lastCall.op = "systemThemeChange"
    /\ theme = "system"
    /\ systemDark
    /\ resolvedTheme = "dark"

\* C4: the in-memory theme is one of light, dark, system and the in-memory radius
\* one of the four sizes in every state; at initialization a stored value that is
\* absent, empty, unreadable or outside the enumeration gives the constructor default.
C4_EnumeratedValues ==
    /\ theme \in {"light", "dark", "system"}
    /\ radius \in {"0", "0.3rem", "0.5rem", "0.75rem"}
    /\ lastCall.op = "init"
         => /\ (storage[storageKey] \notin {"light", "dark", "system"} \/ GetFailed(storageKey))
                 => theme = defaultTheme
            /\ (storage[radiusStorageKey] \notin {"0", "0.3rem", "0.5rem", "0.75rem"}
                    \/ GetFailed(radiusStorageKey))
                 => radius = defaultRadius

\* a store constructed over a storage that holds a string outside the
\* enumeration under the radius key and the empty string under the theme key
C4_Witness ==
    /\ lastCall.op = "init"
    /\ storage[radiusStorageKey] = "1rem"
    /\ storage[storageKey] = ""
    /\ console = <<>>
    /\ radius = defaultRadius
    /\ theme = defaultTheme

\* C5: when the storage write fails, setTheme(m) still makes the in-memory theme
\* m and setRadius(r) with a valid r still makes the in-memory radius r; nothing
\* is raised and the stored values stay as they were.
C5_WriteFailureStillUpdates ==
    [][/\ (lastCall'.op = "setTheme" /\ SetFailed(storageKey)')
            => /\ theme' = lastCall'.arg
               /\ radius' = radius
               /\ ~thrown'
               /\ \A k \in StorageKeys : storage'[k] = storage[k]
       /\ (lastCall'.op = "setRadius" /\ lastCall'.arg \in Radius /\ SetFailed(radiusStorageKey)')
            => /\ radius' = lastCall'.arg
               /\ theme' = theme
               /\ ~thrown'
               /\ \A k \in StorageKeys : storage'[k] = storage[k]]_vars

\* a setTheme whose write failed: the theme in memory is the argument, the
\* stored theme is another one
C5_Witness ==
    /\ lastCall.op = "setTheme"
    /\ SetFailed(storageKey)
    /\ theme = lastCall.arg
    /\ storage[storageKey] \in Theme \ {theme}

\* C6 as stated: the store has a colorTheme field and a setColorTheme setter of
\* the pattern of setTheme: after setColorTheme(name) the color-theme storage
\* key holds name and the in-memory colorTheme is name, and nothing was raised.
C6_SetColorThemePersists ==
    lastCall.op = "setColorTheme"
        => /\ storage[colorStorageKey] = lastCall.arg
           /\ ContextField("colorTheme") = lastCall.arg
           /\ ~thrown

----------------------------------------------------------------------------
(* Properties of the sidebar (checked under SidebarSpec)                    *)

Titles(items) == [i \in 1..Len(items) |-> items[i].title]
Urls(items) == [i \in 1..Len(items) |-> items[i].url]

Gesture == lastTouch.op = "touchend" /\ lastTouch.start # <<>> /\ lastTouch.end # <<>>
GestureStart == lastTouch.start[1]
GestureEnd == lastTouch.end[1]

\* C8 as stated: a gesture that starts within 50px of the right screen edge and
\* ends more than 50px to the left of its start, for every final x including 0,
\* leaves the mobile menu open when the menu was closed at touchend.
C8_EdgeLeftSwipeOpens ==
    (/\ Gesture
     /\ GestureStart > InnerWidth - 50
     /\ GestureEnd < GestureStart - 50
     /\ ~lastTouch.wasOpen)
        => openMobile

\* C9: a gesture that does not start within 50px of the right screen edge
\* (start <= innerWidth - 50), or whose horizontal travel is 50px or less,
\* leaves the mobile-menu open state as it was, open or closed.
C9_OtherGesturesIgnored ==
    (/\ Gesture
     /\ \/ GestureStart <= InnerWidth - 50
        \/ (GestureStart - GestureEnd <= 50 /\ GestureEnd - GestureStart <= 50))
        => openMobile = lastTouch.wasOpen

\* a left swipe of more than 50px that started away from the edge, menu closed
C9_Witness ==
    /\ Gesture
    /\ GestureStart <= InnerWidth - 50
    /\ GestureStart - GestureEnd > 50
    /\ ~lastTouch.wasOpen
    /\ ~openMobile

\* C10: a gesture that starts within 50px of the right screen edge and ends more
\* than 50px to the right of its start closes the mobile menu when it is open
\* and leaves it closed when it is closed; an edge-originating left swipe of
\* more than 50px while the menu is open leaves it open.
C10_EdgeRightSwipeCloses ==
    (Gesture /\ GestureStart > InnerWidth - 50)
        => /\ GestureEnd - GestureStart > 50 => ~openMobile
           /\ (GestureStart - GestureEnd > 50 /\ lastTouch.wasOpen) => openMobile

\* an edge-originating right swipe closed the open menu
C10_Witness ==
    /\ Gesture
    /\ GestureStart > InnerWidth - 50
    /\ GestureEnd - GestureStart > 50
    /\ lastTouch.wasOpen
    /\ ~openMobile

----------------------------------------------------------------------------
(* Properties of the version fetch (checked under VersionSpec)              *)

\* the fetch that settled last is the one of the mounted sidebar
SettledCurrent == lastFetch.op = "settled" /\ sidebarMounted /\ lastFetch.inst = instance

\* C11: when the getSystemStats call made on mount rejects, or resolves without
\* a (non-empty) version, the version label stays the empty string; when it
\* resolves with version V the label becomes ' (vV)'.  No error leaves
\* fetchVersion, a settled call is never made again, and the label of a mount
\* whose call has settled does not change any more.
C11_VersionLabel ==
    [][/\ SettledCurrent'
            => /\ ~lastFetch'.threw
               /\ version' = CASE lastFetch'.outcome = Outcome(FALSE, <<[version |-> "0.8.4"]>>)
                                    -> " (v0.8.4)"
                               [] lastFetch'.outcome = Outcome(FALSE, <<[version |-> "1.0.0"]>>)
                                    -> " (v1.0.0)"
                               [] OTHER -> ""
       /\ \A i \in 1..MaxMounts : fetches[i] = "settled" => fetches'[i] = "settled"
       /\ (instance' = instance /\ fetches[instance] = "settled") => version' = version]_vars

\* the call of the second mount was rejected: the label of that mount is empty
C11_Witness ==
    /\ SettledCurrent
    /\ instance = 2
    /\ lastFetch.outcome.rejected
    /\ version = ""

----------------------------------------------------------------------------
(* Properties of the settings panel (checked under PanelSpec)               *)

\* the panel raised exactly one notification, the success toast
OneSuccessToast == Len(panel.toasts) = 1 /\ panel.toasts[1].kind = "success"

\* C13: in the settings panel every selection of a theme mode, of a color
\* palette or of a radius option commits the selected value to the store (the
\* store's field equals the selected value afterwards) and raises exactly one
\* success notification.
C13_SelectionCommits ==
    /\ lastCall.op = "handleThemeChange"
            => value.theme = lastCall.arg /\ OneSuccessToast
    /\ lastCall.op = "handleColorChange"
            => ContextField("colorTheme") = lastCall.arg /\ OneSuccessToast
    /\ (lastCall.op = "handleRadiusChange" /\ lastCall.arg \in Radius)
            => value.radius = lastCall.arg /\ OneSuccessToast

\* C14: the reset control of the panel never raises the failure notification:
\* from every store state and with every storage behaviour, removeItem throwing
\* included, handleResetToDefaults raises the success notification exactly
\* once, never the error notification, and finishes with isResetting false.
C14_ResetNeverFails ==
    lastCall.op = "handleResetToDefaults"
        => /\ panel.toasts = <<Toast("success", "theme.resetSuccess")>>
           /\ ~panel.isResetting
           /\ ~panel.threw
           /\ ~thrown

\* a reset from the panel, over a changed store, during which removing the
\* theme key failed
C14_Witness ==
    /\ lastCall.op = "handleResetToDefaults"
    /\ RemoveFailed(storageKey)
    /\ storage[storageKey] = "dark"
    /\ theme = defaultTheme
    /\ panel.toasts = <<Toast("success", "theme.resetSuccess")>>

----------------------------------------------------------------------------
(* Properties of the store over its mounts (checked under LifecycleSpec)     *)

\* C15 as stated: the OS color-scheme listener is attached once per mount and
\* detached on teardown: between mount and unmount no setTheme, setRadius or
\* resetToDefaults call makes it detach or re-attach, at most one listener is
\* registered at any moment, and none remains registered after unmount.
C15_AttachedOncePerMount ==
    /\ Len(listeners) <= 1
    /\ ~themeMounted => listeners = <<>>
    /\ lastCall.op = "effects" => lastCall.arg = "attach"

\* C15, amended: at most one OS color-scheme listener is registered at any
\* moment, none remains registered after unmount, and once the effects have
\* run the registered listener is the one that captured the current theme.
\* The listener is detached and attached only by the listener effect, which
\* runs when it is pending (after the mount, and again after a call that
\* changed theme or radius), and by the unmount; the store calls themselves
\* leave the registration alone.
C15_ListenerLifecycle ==
    [][/\ Len(listeners') <= 1
       /\ ~themeMounted' => listeners' = <<>>
       /\ (themeMounted' /\ ~effectsPending') => listeners' = <<theme'>>
       /\ listeners' # listeners => lastCall'.op \in {"effects", "unmount"}
       /\ lastCall'.op = "effects" => effectsPending]_vars

\* the listener effect ran again after a setTheme('dark'): the listener that
\* captured 'system' is replaced by one that captured 'dark'
C15_Witness ==
    /\ lastCall.op = "effects"
    /\ lastCall.arg = "reattach"
    /\ listeners = <<"dark">>
    /\ themeMounted

\* C16: in every state in which the mount effects have run and no effect is
\* pending, the document root carries exactly one of the class markers 'light'
\* and 'dark', and that marker equals resolvedTheme, after any sequence of
\* setTheme, resetToDefaults and OS color-scheme changes.
C16_RootClassIsResolvedTheme ==
    ~effectsPending => rootClass \cap {"light", "dark"} = {resolvedTheme}

\* the OS switched to dark while the theme is 'system', after the root had
\* carried 'light'
C16_Witness ==
    /\ ~effectsPending
    /\ themeMounted
    /\ lastCall.op = "systemThemeChange"
    /\ theme = "system"
    /\ systemDark
    /\ rootClass = {"dark"}

\* a mount whose two storage reads worked
MountReadsWork == ~themeMounted /\ themeMounted' /\ console' = <<>>

\* C17: persistence round trip, with storage working: setTheme(m) and
\* setRadius(r) store m and r under their keys and set them in memory, each
\* leaving the other's key alone, and the teardown keeps the storage; a new
\* store initialised over the same keys then holds theme = m and radius = r.
\* A resetToDefaults with storage working leaves the keys absent, and a new
\* store initialised over absent keys holds the constructor defaults.
C17_PersistenceRoundTrip ==
    [][/\ (lastCall'.op = "setTheme" /\ ~SetFailed(storageKey)')
            => /\ storage'[storageKey] = lastCall'.arg
               /\ theme' = lastCall'.arg
               /\ storage'[radiusStorageKey] = storage[radiusStorageKey]
               /\ radius' = radius
       /\ (lastCall'.op = "setRadius" /\ lastCall'.arg \in Radius /\ ~SetFailed(radiusStorageKey)')
            => /\ storage'[radiusStorageKey] = lastCall'.arg
               /\ radius' = lastCall'.arg
               /\ storage'[storageKey] = storage[storageKey]
               /\ theme' = theme
       /\ (lastCall'.op = "resetToDefaults" /\ console' = <<>>)
            => /\ \A k \in StorageKeys : storage'[k] = Null
               /\ theme' = defaultTheme
               /\ radius' = defaultRadius
       /\ (themeMounted /\ ~themeMounted') => UNCHANGED <<storage, theme, radius>>
       /\ MountReadsWork
            => /\ storage' = storage
               /\ storage[storageKey] = theme => theme' = theme
               /\ storage[radiusStorageKey] = radius => radius' = radius
               /\ storage[storageKey] = Null => theme' = defaultTheme
               /\ storage[radiusStorageKey] = Null => radius' = defaultRadius]_vars

\* a store mounted again over the keys a setTheme('dark') and a
\* setRadius('0.75rem') wrote: it holds both values
C17_Witness ==
    /\ lastCall.op = "init"
    /\ themeMounted
    /\ console = <<>>
    /\ storage[storageKey] = "dark"
    /\ storage[radiusStorageKey] = "0.75rem"
    /\ theme = "dark"
    /\ radius = "0.75rem"

----------------------------------------------------------------------------
(* Touch gestures inside the viewport (checked under SidebarSpec)            *)

\* the recorded touch positions of the last touchend lie inside the viewport
InsideViewport ==
    /\ lastTouch.start # <<>> => lastTouch.start[1] <= InnerWidth
    /\ lastTouch.end # <<>> => lastTouch.end[1] <= InnerWidth

\* C18: when every touch coordinate lies inside the viewport (0 <= x <=
\* innerWidth), no touch gesture changes the mobile menu from open to closed:
\* a start within 50px of the right edge is never followed by a final position
\* more than 50px further right, so handleTouchEnd never takes its
\* swipe-to-close branch.
C18_TouchNeverCloses ==
    (lastTouch.op = "touchend" /\ InsideViewport)
        => /\ lastTouch.wasOpen => openMobile
           /\ (Gesture /\ isFromRightEdge(GestureStart))
                => ~isRightSwipe(GestureStart - GestureEnd)

\* a move to the right, from the edge zone to the last pixel of the viewport,
\* while the menu was open: it stays open
C18_Witness ==
    /\ Gesture
    /\ InsideViewport
    /\ GestureStart > InnerWidth - 50
    /\ GestureEnd = InnerWidth
    /\ GestureEnd > GestureStart
    /\ lastTouch.wasOpen
    /\ openMobile

====
